---------------------------- MODULE Spec2Model ----------------------------
(***************************************************************************)
(* The kitties pallet (src/pallets/kitties/src/lib.rs) as a state machine. *)
(*                                                                         *)
(* State: the four storage items of decl_storage (Kitties, NextKittyId,    *)
(* KittyPrice, Balance), the record of the last dispatched call with its   *)
(* result, and the history of the ids handed out by get_next_kitty_id and   *)
(* of the dna stored with each of them.                                    *)
(* One action per dispatchable: create, breed, transfer, set_price,        *)
(* exchange.  A dispatchable of decl_module is not transactional: what it  *)
(* wrote before returning an error stays written.                          *)
(*                                                                         *)
(* Option<T> is modelled as a sequence of length at most one: None is <<>> *)
(* and Some(x) is <<x>>.                                                   *)
(***************************************************************************)
EXTENDS Naturals, Sequences, FiniteSets

\* ------------------------------------------------------------ bounds
\* Number of accounts (T::AccountId has no bound in the code).
NumAccounts == 2
\* T::KittyIndex::max_value(): the id type is a Config parameter; a small
\* unsigned type makes KittiesIdOverflow reachable.
MaxKittyIndex == 3
\* BalanceOf<T>::max_value(): the balance type is a Config parameter; a small
\* unsigned type makes the overflow of `*my_bal + price` reachable.
MaxBalance == 4
\* Highest id that may carry a listing in pre-populated storage.
MaxSeededId == 0
\* The price of a pre-populated listing.
SeedPrice == 1

\* ------------------------------------------------------------ constants
\* pub struct Kitty(pub [u8; 16])
DnaLen == 16
\* u8::MAX
ByteMax == 255
\* bits of a u8
ByteBits == 8

Accounts == 1..NumAccounts
KittyIndex == 0..MaxKittyIndex
\* the new_price arguments set_price is called with (BalanceOf<T> values)
NewPrices == {0, SeedPrice + 1}
DnaIdx == 0..(DnaLen - 1)

None == <<>>
Some(x) == <<x>>

\* ------------------------------------------------------------ u8 arithmetic
RECURSIVE BitAnd(_, _)
BitAnd(x, y) ==
    IF x = 0 \/ y = 0 THEN 0
    ELSE (x % 2) * (y % 2) + 2 * BitAnd(x \div 2, y \div 2)

RECURSIVE BitOr(_, _)
BitOr(x, y) ==
    IF x = 0 THEN y
    ELSE IF y = 0 THEN x
    ELSE (IF x % 2 = 1 \/ y % 2 = 1 THEN 1 ELSE 0) + 2 * BitOr(x \div 2, y \div 2)

\* !x on a u8
BitNot(x) == ByteMax - x

\* Faulty variant: the selector's 1 bits take the first parent's bits.
combine_dna_swapped(dna1, dna2, selector) ==
    BitOr(BitAnd(selector, dna1), BitAnd(BitNot(selector), dna2))

\* fn combine_dna(dna1: u8, dna2: u8, selector: u8) -> u8
combine_dna(dna1, dna2, selector) ==
    BitOr(BitAnd(BitNot(selector), dna1), BitAnd(selector, dna2))

\* Faulty variant: the parity of the last byte.
gender_last_byte(kitty) ==
    IF kitty[DnaLen - 1] % 2 = 0 THEN "Male" ELSE "Female"

\* Kitty::gender: parity of byte 0
gender(kitty) ==
    IF kitty[0] % 2 = 0 THEN "Male" ELSE "Female"

\* ------------------------------------------------------------ randomness
\* random_value hashes (seed, sender, extrinsic index) with blake2_128: any
\* 16 bytes may come out.  The values the model draws from:
DnaA == [i \in DnaIdx |-> 170]
DnaB == [i \in DnaIdx |-> IF i % 2 = 0 THEN 85 ELSE 240]
DnaS == [i \in DnaIdx |-> IF i % 2 = 0 THEN 240 ELSE 15]
\* drawn by create
RandomValues == {DnaA, DnaB}
\* drawn by breed
Selectors == {DnaS, DnaB}
NoDna == [i \in DnaIdx |-> 0]

\* ------------------------------------------------------------ state
VARIABLES
    kitties,      \* Kitties: double_map AccountId, KittyIndex => Option<Kitty>
    nextKittyId,  \* NextKittyId: KittyIndex
    kittyPrice,   \* KittyPrice: map KittyIndex => Option<Balance>
    balance,      \* Balance: map AccountId => Option<Balance>
    last,         \* the last dispatched call, its arguments and its result
    allocated,    \* history: the ids returned by get_next_kitty_id, in order
    genomes       \* history: the dna stored under allocated[i], at index i

vars == <<kitties, nextKittyId, kittyPrice, balance, last, allocated, genomes>>

\* The storage as one value, st.k / st.n / st.p / st.b
Storage == [k |-> kitties, n |-> nextKittyId, p |-> kittyPrice, b |-> balance]

Ok(st, ret) == [res |-> "Ok", ret |-> ret, st |-> st]
Err(st, e) == [res |-> e, ret |-> None, st |-> st]

\* ------------------------------------------------------------ get_next_kitty_id
\* Faulty variants: wrapping_add and saturating_add in place of checked_add.
get_next_kitty_id_wrapping(n) ==
    [ok |-> TRUE, id |-> n, next |-> (n + 1) % (MaxKittyIndex + 1)]

get_next_kitty_id_saturating(n) ==
    [ok |-> TRUE, id |-> n, next |-> IF n + 1 > MaxKittyIndex THEN n ELSE n + 1]

\* NextKittyId::try_mutate: the closure's write is stored only on Ok.
get_next_kitty_id(n) ==
    IF n + 1 > MaxKittyIndex
    THEN [ok |-> FALSE, id |-> n, next |-> n]
    ELSE [ok |-> TRUE, id |-> n, next |-> n + 1]

\* ------------------------------------------------------------ create
create(st, sender, dna) ==
    LET a == get_next_kitty_id(st.n) IN
    IF ~a.ok THEN Err(st, "KittiesIdOverflow")
    ELSE Ok([st EXCEPT !.n = a.next, !.k[sender][a.id] = Some(dna)], Some(a.id))

\* ------------------------------------------------------------ breed
new_dna(kitty1_dna, kitty2_dna, selector) ==
    [i \in DnaIdx |-> combine_dna(kitty1_dna[i], kitty2_dna[i], selector[i])]

\* Faulty variant: no comparison of the parents' genders.
breed_no_gender_check(st, sender, kitty_id_1, kitty_id_2, selector) ==
    LET kitty1 == st.k[sender][kitty_id_1]
        kitty2 == st.k[sender][kitty_id_2]
        a == get_next_kitty_id(st.n)
    IN
    IF kitty1 = None THEN Err(st, "InvalidKittyId")
    ELSE IF kitty2 = None THEN Err(st, "InvalidKittyId")
    ELSE IF ~a.ok THEN Err(st, "KittiesIdOverflow")
    ELSE Ok([st EXCEPT !.n = a.next,
                       !.k[sender][a.id] =
                           Some(new_dna(kitty1[1], kitty2[1], selector))],
            Some(a.id))

\* Faulty variant: the id is taken before the parents are checked.
breed_alloc_first(st, sender, kitty_id_1, kitty_id_2, selector) ==
    LET a == get_next_kitty_id(st.n)
        st1 == [st EXCEPT !.n = a.next]
        kitty1 == st.k[sender][kitty_id_1]
        kitty2 == st.k[sender][kitty_id_2]
    IN
    IF ~a.ok THEN Err(st, "KittiesIdOverflow")
    ELSE IF kitty1 = None THEN Err(st1, "InvalidKittyId")
    ELSE IF kitty2 = None THEN Err(st1, "InvalidKittyId")
    ELSE IF gender(kitty1[1]) = gender(kitty2[1]) THEN Err(st1, "SameGender")
    ELSE Ok([st1 EXCEPT !.k[sender][a.id] =
                            Some(new_dna(kitty1[1], kitty2[1], selector))],
            Some(a.id))

breed(st, sender, kitty_id_1, kitty_id_2, selector) ==
    LET kitty1 == st.k[sender][kitty_id_1]
        kitty2 == st.k[sender][kitty_id_2]
    IN
    IF kitty1 = None THEN Err(st, "InvalidKittyId")
    ELSE IF kitty2 = None THEN Err(st, "InvalidKittyId")
    ELSE IF gender(kitty1[1]) = gender(kitty2[1]) THEN Err(st, "SameGender")
    ELSE LET a == get_next_kitty_id(st.n) IN
         IF ~a.ok THEN Err(st, "KittiesIdOverflow")
         ELSE Ok([st EXCEPT !.n = a.next,
                            !.k[sender][a.id] =
                                Some(new_dna(kitty1[1], kitty2[1], selector))],
                 Some(a.id))

\* ------------------------------------------------------------ transfer
\* Faulty variants: the sender's entry is not removed; the kitty is not
\* inserted under `to`; no sender == to case, so that the closure's None
\* removes what it has just inserted; a default Kitty is inserted under `to`.
transfer_zero_dna(st, sender, to, kitty_id) ==
    LET kitty == st.k[sender][kitty_id] IN
    IF sender = to
    THEN IF kitty = None THEN Err(st, "InvalidKittyId") ELSE Ok(st, None)
    ELSE IF kitty = None THEN Err(st, "InvalidKittyId")
    ELSE Ok([st EXCEPT !.k[to][kitty_id] = Some(NoDna), !.k[sender][kitty_id] = None],
            None)

transfer_keep_sender(st, sender, to, kitty_id) ==
    LET kitty == st.k[sender][kitty_id] IN
    IF kitty = None THEN Err(st, "InvalidKittyId")
    ELSE Ok([st EXCEPT !.k[to][kitty_id] = kitty], None)

transfer_no_insert(st, sender, to, kitty_id) ==
    LET kitty == st.k[sender][kitty_id] IN
    IF sender = to
    THEN IF kitty = None THEN Err(st, "InvalidKittyId") ELSE Ok(st, None)
    ELSE IF kitty = None THEN Err(st, "InvalidKittyId")
    ELSE Ok([st EXCEPT !.k[sender][kitty_id] = None], None)

transfer_self_removes(st, sender, to, kitty_id) ==
    LET kitty == st.k[sender][kitty_id] IN
    IF kitty = None THEN Err(st, "InvalidKittyId")
    ELSE Ok([st EXCEPT !.k[to][kitty_id] = kitty, !.k[sender][kitty_id] = None], None)

\* Kitties::try_mutate_exists(sender, kitty_id, ..): the closure's value is
\* written back (None removes the key) only when the closure returns Ok.
transfer(st, sender, to, kitty_id) ==
    LET kitty == st.k[sender][kitty_id] IN
    IF sender = to
    THEN IF kitty = None THEN Err(st, "InvalidKittyId") ELSE Ok(st, None)
    ELSE IF kitty = None THEN Err(st, "InvalidKittyId")
    ELSE LET inserted == [st EXCEPT !.k[to][kitty_id] = kitty]
         IN Ok([inserted EXCEPT !.k[sender][kitty_id] = None], None)

\* ------------------------------------------------------------ set_price
\* Faulty variants: the event carries the new price; a kitty without listing
\* gets one.
set_price_reports_new(st, setter, kitty_id, new_price) ==
    LET is_mine == st.k[setter][kitty_id] # None
        price == st.p[kitty_id]
    IN
    IF ~is_mine THEN Err(st, "InvalidKittyId")
    ELSE IF price = None THEN Err(st, "NotForSale")
    ELSE Ok([st EXCEPT !.p[kitty_id] = Some(new_price)], Some(new_price))

set_price_inserts(st, setter, kitty_id, new_price) ==
    LET is_mine == st.k[setter][kitty_id] # None
        price == st.p[kitty_id]
    IN
    IF ~is_mine THEN Err(st, "InvalidKittyId")
    ELSE Ok([st EXCEPT !.p[kitty_id] = Some(new_price)], price)

\* KittyPrice::get(..).ok_or(NotForSale)? precedes the write; the value of the
\* call is the price the KittyPriceSet event carries, the one read before.
set_price(st, setter, kitty_id, new_price) ==
    LET is_mine == st.k[setter][kitty_id] # None
        price == st.p[kitty_id]
    IN
    IF ~is_mine THEN Err(st, "InvalidKittyId")
    ELSE IF price = None THEN Err(st, "NotForSale")
    ELSE Ok([st EXCEPT !.p[kitty_id] = Some(new_price)], price)

\* ------------------------------------------------------------ exchange
\* A panic ends the call.  What the call wrote before it is kept when the
\* panic unwinds through a native caller and dropped when the host discards
\* the call's overlay: both are outcomes.
Panic(before, reached) ==
    {[res |-> "Panic", ret |-> None, st |-> before],
     [res |-> "Panic", ret |-> None, st |-> reached]}

\* Faulty variants: no comparison of sender and receiver; the listing is
\* read with get and removed only by a call that returns Ok; the balance
\* consulted is the sender's.
exchange_no_self_check(st, sender, receiver, kitty_id) ==
    LET taken == st.p[kitty_id]
        kitty == st.k[sender][kitty_id]
        st1 == [st EXCEPT !.p[kitty_id] = None]
    IN
    IF taken = None \/ st.b[receiver] = None THEN {Err(st1, "NotForSale")}
    ELSE IF ~(taken[1] < st.b[receiver][1]) THEN {Err(st1, "NotEnoughBalance")}
    ELSE IF kitty = None THEN Panic(st, st1)
    ELSE {Ok([st1 EXCEPT !.k[sender][kitty_id] = None], None)}

exchange_get_listing(st, sender, receiver, kitty_id) ==
    LET taken == st.p[kitty_id]
        kitty == st.k[sender][kitty_id]
        st1 == [st EXCEPT !.p[kitty_id] = None]
    IN
    IF sender = receiver THEN {Err(st, "CannotExchangeWithYourself")}
    ELSE IF taken = None \/ st.b[receiver] = None THEN {Err(st, "NotForSale")}
    ELSE IF ~(taken[1] < st.b[receiver][1]) THEN {Err(st, "NotEnoughBalance")}
    ELSE IF kitty = None THEN Panic(st, st1)
    ELSE {Ok([st1 EXCEPT !.k[sender][kitty_id] = None], None)}

exchange_reads_sender(st, sender, receiver, kitty_id) ==
    LET taken == st.p[kitty_id]
        kitty == st.k[sender][kitty_id]
        st1 == [st EXCEPT !.p[kitty_id] = None]
    IN
    IF sender = receiver THEN {Err(st, "CannotExchangeWithYourself")}
    ELSE IF taken = None \/ st.b[sender] = None THEN {Err(st1, "NotForSale")}
    ELSE IF ~(taken[1] < st.b[sender][1]) THEN {Err(st1, "NotEnoughBalance")}
    ELSE IF kitty = None THEN Panic(st, st1)
    ELSE {Ok([st1 EXCEPT !.k[sender][kitty_id] = None], None)}

\* Faulty variant: the kitty is inserted under the receiver.
exchange_moves_kitty(st, sender, receiver, kitty_id) ==
    LET taken == st.p[kitty_id]
        kitty == st.k[sender][kitty_id]
        st1 == [st EXCEPT !.p[kitty_id] = None]
    IN
    IF sender = receiver THEN {Err(st, "CannotExchangeWithYourself")}
    ELSE IF taken = None \/ st.b[receiver] = None THEN {Err(st1, "NotForSale")}
    ELSE IF ~(taken[1] < st.b[receiver][1]) THEN {Err(st1, "NotEnoughBalance")}
    ELSE IF kitty = None THEN Panic(st, st1)
    ELSE {Ok([st1 EXCEPT !.k[sender][kitty_id] = None, !.k[receiver][kitty_id] = kitty], None)}

\* The set of outcomes of the call.  `*my_bal - price` and `*my_bal + price`
\* panic in a build with overflow checks and wrap in a build without: where
\* they overflow, both builds' outcomes are in the set.
exchange(st, sender, receiver, kitty_id) ==
    IF sender = receiver THEN {Err(st, "CannotExchangeWithYourself")}
    ELSE
    LET my_balance == st.b[receiver]
        taken == st.p[kitty_id]
        st1 == [st EXCEPT !.p[kitty_id] = None]
    IN
    IF taken = None THEN {Err(st1, "NotForSale")}
    ELSE IF my_balance = None THEN {Err(st1, "NotForSale")}
    ELSE IF ~(taken[1] < my_balance[1]) THEN {Err(st1, "NotEnoughBalance")}
    ELSE
    LET price == taken[1]
        sbal == st1.b[sender]
        underflow == sbal # None /\ sbal[1] < price
        st2 == IF sbal = None THEN st1
               ELSE [st1 EXCEPT !.b[sender] =
                        Some((sbal[1] + (MaxBalance + 1) - price) % (MaxBalance + 1))]
        rbal == st2.b[receiver]
        overflow == rbal # None /\ rbal[1] + price > MaxBalance
        st3 == IF rbal = None THEN st2
               ELSE [st2 EXCEPT !.b[receiver] = Some((rbal[1] + price) % (MaxBalance + 1))]
        st4 == [st3 EXCEPT !.k[sender][kitty_id] = None]
        checked == IF underflow THEN Panic(st, st1)
                   ELSE IF overflow THEN Panic(st, st2)
                   ELSE {}
        unwrapped == IF st3.k[sender][kitty_id] = None THEN Panic(st, st3)
                     ELSE {Ok(st4, None)}
    IN checked \cup unwrapped

\* ------------------------------------------------------------ actions
NoCall ==
    [op |-> "none", res |-> "Ok", ret |-> None, sender |-> 1, to |-> 1,
     id1 |-> 0, id2 |-> 0, price |-> 0, rand |-> NoDna]

\* The record of a dispatched call.  The arguments are kept for a call that
\* returned Ok; a call that failed is recorded by its name and its error.
Call(op, sender, to, id1, id2, price, rand, r) ==
    IF r.res = "Ok"
    THEN [op |-> op, res |-> r.res, ret |-> r.ret, sender |-> sender, to |-> to,
          id1 |-> id1, id2 |-> id2, price |-> price, rand |-> rand]
    ELSE [NoCall EXCEPT !.op = op, !.res = r.res]

Commit(r) ==
    /\ kitties' = r.st.k
    /\ nextKittyId' = r.st.n
    /\ kittyPrice' = r.st.p
    /\ balance' = r.st.b

Create(sender, dna) ==
    LET r == create(Storage, sender, dna) IN
    /\ Commit(r)
    /\ last' = Call("create", sender, sender, 0, 0, 0, dna, r)
    /\ allocated' = IF r.res = "Ok" THEN Append(allocated, r.ret[1]) ELSE allocated
    /\ genomes' = IF r.res = "Ok"
                  THEN Append(genomes, r.st.k[sender][r.ret[1]][1]) ELSE genomes

Breed(sender, kitty_id_1, kitty_id_2, selector) ==
    LET r == breed(Storage, sender, kitty_id_1, kitty_id_2, selector) IN
    /\ Commit(r)
    /\ last' = Call("breed", sender, sender, kitty_id_1, kitty_id_2, 0, selector, r)
    /\ allocated' = IF r.res = "Ok" THEN Append(allocated, r.ret[1]) ELSE allocated
    /\ genomes' = IF r.res = "Ok"
                  THEN Append(genomes, r.st.k[sender][r.ret[1]][1]) ELSE genomes

Transfer(sender, to, kitty_id) ==
    LET r == transfer(Storage, sender, to, kitty_id) IN
    /\ Commit(r)
    /\ last' = Call("transfer", sender, to, kitty_id, 0, 0, NoDna, r)
    /\ UNCHANGED <<allocated, genomes>>

SetPrice(setter, kitty_id, new_price) ==
    LET r == set_price(Storage, setter, kitty_id, new_price) IN
    /\ Commit(r)
    /\ last' = Call("set_price", setter, setter, kitty_id, 0, new_price, NoDna, r)
    /\ UNCHANGED <<allocated, genomes>>

Exchange(sender, receiver, kitty_id) ==
    \E r \in exchange(Storage, sender, receiver, kitty_id) :
        /\ Commit(r)
        /\ last' = Call("exchange", sender, receiver, kitty_id, 0, 0, NoDna, r)
        /\ UNCHANGED <<allocated, genomes>>

\* decl_storage declares no genesis config: every map starts empty and
\* NextKittyId starts at KittyIndex::default().
Init ==
    /\ kitties = [o \in Accounts |-> [id \in KittyIndex |-> None]]
    /\ nextKittyId = 0
    /\ kittyPrice = [id \in KittyIndex |-> None]
    /\ balance = [o \in Accounts |-> None]
    /\ last = NoCall
    /\ allocated = <<>>
    /\ genomes = <<>>

\* KittyPrice and Balance are pub storage items that no dispatchable of the
\* pallet ever inserts into: a chain (or a test) that has listings and
\* balances got them from outside the five calls (raw genesis storage, a
\* migration, a direct insert).  InitSeeded is the start of such a chain:
\* ownership and the counter as at genesis, the ids up to MaxSeededId listed
\* at SeedPrice, and each account with or without a balance record: account
\* 1 with as much as SeedPrice, the other accounts with one below the
\* balance type's maximum, so that a price may lie below, at, between and
\* above the balances of the two sides of an exchange.
SeedBalances(o) == {None, Some(IF o = 1 THEN SeedPrice ELSE MaxBalance - 1)}

InitSeeded ==
    /\ kitties = [o \in Accounts |-> [id \in KittyIndex |-> None]]
    /\ nextKittyId = 0
    /\ kittyPrice = [id \in KittyIndex |-> IF id <= MaxSeededId THEN Some(SeedPrice) ELSE None]
    /\ balance \in {b \in [Accounts -> {None} \cup {Some(x) : x \in 0..MaxBalance}] :
                        \A o \in Accounts : b[o] \in SeedBalances(o)}
    /\ last = NoCall
    /\ allocated = <<>>
    /\ genomes = <<>>

Next ==
    \/ \E sender \in Accounts, dna \in RandomValues : Create(sender, dna)
    \/ \E sender \in Accounts, id1 \in KittyIndex, id2 \in KittyIndex,
          selector \in Selectors : Breed(sender, id1, id2, selector)
    \/ \E sender \in Accounts, to \in Accounts, id \in KittyIndex :
          Transfer(sender, to, id)
    \/ \E setter \in Accounts, id \in KittyIndex, new_price \in NewPrices :
          SetPrice(setter, id, new_price)
    \/ \E sender \in Accounts, receiver \in Accounts, id \in KittyIndex :
          Exchange(sender, receiver, id)

Spec == Init /\ [][Next]_vars

SpecSeeded == InitSeeded /\ [][Next]_vars

\* ------------------------------------------------------------ claims
\* The claims are stated of every reachable storage and every call the
\* dispatcher may make in it: `create(Storage, ..)` and the like are the
\* outcomes the actions commit.
Holders(id) == {o \in Accounts : kitties[o][id] # None}
HoldersIn(k, id) == {o \in Accounts : k[o][id] # None}
Allocated == {allocated[i] : i \in DOMAIN allocated}
Bit(x, b) == (x \div (2 ^ b)) % 2
Parity0(o, id) == kitties[o][id][1][0] % 2

\* C1: in every state reachable from the empty storage, every kitty id is
\* held by at most one account.
C1_AtMostOneOwner ==
    \A id \in KittyIndex : Cardinality(Holders(id)) <= 1

\* a kitty moved to another account, and another kitty exists beside it
C1_Witness ==
    /\ last.op = "transfer" /\ last.res = "Ok" /\ last.sender # last.to
    /\ Holders(last.id1) = {last.to}
    /\ \E id \in KittyIndex : id # last.id1 /\ Holders(id) # {}

\* C2: a call that does not return Ok leaves Kitties, NextKittyId and Balance
\* as they were, and KittyPrice too except that a failing exchange may have
\* removed the listing of its kitty_id.
C2_FailureLeavesStorage ==
    [][last'.res # "Ok" =>
        /\ kitties' = kitties
        /\ nextKittyId' = nextKittyId
        /\ balance' = balance
        /\ \/ kittyPrice' = kittyPrice
           \/ /\ last'.op = "exchange"
              /\ \E s \in Accounts, r \in Accounts, id \in KittyIndex :
                    /\ Exchange(s, r, id)
                    /\ kittyPrice' = [kittyPrice EXCEPT ![id] = None]]_vars

\* C3: NextKittyId starts at zero and counts the creates and breeds that
\* returned Ok: such a call adds exactly one, and a failed create or breed
\* and every transfer, set_price and exchange leave it as it is.
C3_CounterSteps ==
    /\ nextKittyId = Len(allocated)
    /\ \A s \in Accounts :
          /\ \A dna \in RandomValues :
                LET r == create(Storage, s, dna) IN
                r.st.n = IF r.res = "Ok" THEN nextKittyId + 1 ELSE nextKittyId
          /\ \A id1 \in KittyIndex :
                /\ \A id2 \in KittyIndex, sel \in Selectors :
                      LET r == breed(Storage, s, id1, id2, sel) IN
                      r.st.n = IF r.res = "Ok" THEN nextKittyId + 1 ELSE nextKittyId
                /\ \A to \in Accounts :
                      /\ transfer(Storage, s, to, id1).st.n = nextKittyId
                      /\ \A r \in exchange(Storage, s, to, id1) : r.st.n = nextKittyId
                /\ \A new_price \in NewPrices :
                      set_price(Storage, s, id1, new_price).st.n = nextKittyId

\* the counter reached its last value by a breed, after a set_price or an
\* exchange had run
C3_Witness ==
    /\ last.op = "breed" /\ last.res = "Ok"
    /\ nextKittyId = MaxKittyIndex
    /\ kittyPrice[0] # Some(SeedPrice)

\* C4: with NextKittyId at the id type's maximum, create fails with
\* KittiesIdOverflow, and so does a breed of two kitties of the sender of
\* different gender; the counter and Kitties keep their values.
C4_OverflowAtMax ==
    nextKittyId = MaxKittyIndex =>
        \A s \in Accounts :
            /\ \A dna \in RandomValues :
                  LET r == create(Storage, s, dna) IN
                  /\ r.res = "KittiesIdOverflow"
                  /\ r.st.n = nextKittyId /\ r.st.k = kitties
            /\ \A id1 \in KittyIndex, id2 \in KittyIndex, sel \in Selectors :
                  ( /\ kitties[s][id1] # None /\ kitties[s][id2] # None
                    /\ Parity0(s, id1) # Parity0(s, id2) )
                  => LET r == breed(Storage, s, id1, id2, sel) IN
                     /\ r.res = "KittiesIdOverflow"
                     /\ r.st.n = nextKittyId /\ r.st.k = kitties

\* a breed of two existing parents of different gender has hit the overflow
C4_Witness ==
    /\ last.op = "breed" /\ last.res = "KittiesIdOverflow"
    /\ nextKittyId = MaxKittyIndex
    /\ \E o \in Accounts, id1 \in KittyIndex, id2 \in KittyIndex :
          /\ kitties[o][id1] # None /\ kitties[o][id2] # None
          /\ Parity0(o, id1) # Parity0(o, id2)

\* C5: the ids handed out so far are strictly increasing, every kitty held
\* has one of them, and the id stored by a create or breed that returns Ok
\* is larger than all of them and held by no account.
C5_IdsNeverReused ==
    /\ \A i \in DOMAIN allocated, j \in DOMAIN allocated :
          i < j => allocated[i] < allocated[j]
    /\ \A id \in KittyIndex : Holders(id) # {} => id \in Allocated
    /\ \A s \in Accounts :
          LET fresh(r) ==
                  r.res = "Ok" =>
                      /\ r.ret # None
                      /\ \A a \in Allocated : a < r.ret[1]
                      /\ Holders(r.ret[1]) = {}
                      /\ HoldersIn(r.st.k, r.ret[1]) = {s}
          IN /\ \A dna \in RandomValues : fresh(create(Storage, s, dna))
             /\ \A id1 \in KittyIndex, id2 \in KittyIndex, sel \in Selectors :
                   fresh(breed(Storage, s, id1, id2, sel))

\* an id was allocated after the kitty of id 0 had been removed by exchange
C5_Witness ==
    /\ last.op = "create" /\ last.res = "Ok"
    /\ Len(allocated) >= 2 /\ allocated[1] = 0
    /\ Holders(0) = {}
    /\ last.ret # Some(0)

\* C6: transfer to another account fails with InvalidKittyId and changes
\* nothing when the sender does not hold the kitty; otherwise it returns Ok,
\* the kitty is under `to` with its dna and no longer under the sender, and
\* every other entry, NextKittyId, KittyPrice and Balance are unchanged.
C6_TransferMoves ==
    \A from \in Accounts, to \in Accounts, id \in KittyIndex :
        from # to =>
            LET r == transfer(Storage, from, to, id) IN
            IF kitties[from][id] = None
            THEN r.res = "InvalidKittyId" /\ r.st = Storage
            ELSE /\ r.res = "Ok"
                 /\ r.st.k[from][id] = None
                 /\ r.st.k[to][id] = kitties[from][id]
                 /\ \A o \in Accounts, i \in KittyIndex :
                        (i # id \/ o \notin {from, to}) => r.st.k[o][i] = kitties[o][i]
                 /\ r.st.n = nextKittyId /\ r.st.p = kittyPrice /\ r.st.b = balance

\* a listed kitty moved from its owner to another account
C6_Witness ==
    /\ last.op = "transfer" /\ last.res = "Ok" /\ last.sender # last.to
    /\ kitties[last.sender][last.id1] = None
    /\ kitties[last.to][last.id1] # None
    /\ kittyPrice[last.id1] # None

\* C7: transfer(a, a, id) returns Ok and changes no storage when a holds
\* id, and fails with InvalidKittyId when a does not.
C7_SelfTransfer ==
    \A a \in Accounts, id \in KittyIndex :
        LET r == transfer(Storage, a, a, id) IN
        /\ r.res = IF kitties[a][id] # None THEN "Ok" ELSE "InvalidKittyId"
        /\ r.st = Storage

\* a transfer of a held, listed kitty to its own holder has returned Ok
C7_Witness ==
    /\ last.op = "transfer" /\ last.res = "Ok" /\ last.sender = last.to
    /\ kitties[last.sender][last.id1] # None
    /\ kittyPrice[last.id1] # None

\* C8 as claimed: create, breed, set_price and exchange keep every entry of
\* Kitties that was present before the call.
C8_OnlyTransferRemoves ==
    [][last'.op \in {"create", "breed", "set_price", "exchange"} =>
        \A o \in Accounts, id \in KittyIndex :
            kitties[o][id] # None => kitties'[o][id] = kitties[o][id]]_vars

\* C8 amended: create, breed and set_price keep every entry of Kitties; an
\* exchange keeps every entry except that one returning Ok removes the
\* entry (sender, kitty_id), which leaves the id without holder; and none
\* of the four puts an id that had a holder under an account.
C8_NoOwnerChangeButExchangeRemoves ==
    LET kept(r) ==
            \A o \in Accounts, id \in KittyIndex :
                /\ kitties[o][id] # None => r.st.k[o][id] = kitties[o][id]
                /\ r.st.k[o][id] # None => (kitties[o][id] # None \/ Holders(id) = {})
        keptBut(r, s, kid) ==
            \A o \in Accounts, id \in KittyIndex :
                /\ kitties[o][id] # None =>
                      \/ r.st.k[o][id] = kitties[o][id]
                      \/ /\ r.res = "Ok" /\ o = s /\ id = kid
                         /\ HoldersIn(r.st.k, id) = {}
                /\ r.st.k[o][id] # None => kitties[o][id] # None
    IN \A s \in Accounts :
          /\ \A dna \in RandomValues : kept(create(Storage, s, dna))
          /\ \A id1 \in KittyIndex :
                /\ \A id2 \in KittyIndex, sel \in Selectors :
                      kept(breed(Storage, s, id1, id2, sel))
                /\ \A new_price \in NewPrices :
                      kept(set_price(Storage, s, id1, new_price))
                /\ \A receiver \in Accounts :
                      \A r \in exchange(Storage, s, receiver, id1) : keptBut(r, s, id1)

\* an exchange returned Ok and its kitty is held by nobody, while another
\* kitty is still held
C8_Witness ==
    /\ last.op = "exchange" /\ last.res = "Ok"
    /\ Holders(last.id1) = {}
    /\ \E id \in KittyIndex : Holders(id) # {}

\* C9: breed fails with InvalidKittyId when the sender does not hold both
\* kitties; when it holds both it fails with SameGender exactly when byte 0
\* of the two dnas has the same parity; neither failure consumes an id or
\* stores a kitty.
C9_BreedChecks ==
    \A s \in Accounts, id1 \in KittyIndex, id2 \in KittyIndex, sel \in Selectors :
        LET r == breed(Storage, s, id1, id2, sel) IN
        /\ (kitties[s][id1] = None \/ kitties[s][id2] = None)
              => r.res = "InvalidKittyId"
        /\ (kitties[s][id1] # None /\ kitties[s][id2] # None)
              => (r.res = "SameGender" <=> Parity0(s, id1) = Parity0(s, id2))
        /\ r.res \in {"InvalidKittyId", "SameGender"}
              => r.st.n = nextKittyId /\ r.st.k = kitties

\* a breed of two different kitties of the sender, both with an odd byte 0,
\* failed with SameGender and left the counter where it was
C9_Witness ==
    /\ last.op = "breed" /\ last.res = "SameGender"
    /\ nextKittyId = 2 /\ allocated = <<0, 1>>
    /\ \E o \in Accounts :
          /\ kitties[o][0] # None /\ kitties[o][1] # None
          /\ Parity0(o, 0) = 1 /\ Parity0(o, 1) = 1

\* C10: a breed that returns Ok stores under the sender and the new id a dna
\* of which every bit is the first parent's where the selector's bit is 0
\* and the second parent's where it is 1; both parents stay as they were.
C10_ChildBits ==
    \A s \in Accounts, id1 \in KittyIndex, id2 \in KittyIndex, sel \in Selectors :
        LET r == breed(Storage, s, id1, id2, sel) IN
        r.res = "Ok" =>
            /\ r.ret # None
            /\ r.st.k[s][r.ret[1]] # None
            /\ r.ret[1] \notin {id1, id2}
            /\ \A i \in DnaIdx :
                  /\ r.st.k[s][r.ret[1]][1][i] \in 0..ByteMax
                  /\ \A b \in 0..(ByteBits - 1) :
                        Bit(r.st.k[s][r.ret[1]][1][i], b) =
                            IF Bit(sel[i], b) = 0
                            THEN Bit(kitties[s][id1][1][i], b)
                            ELSE Bit(kitties[s][id2][1][i], b)
            /\ r.st.k[s][id1] = kitties[s][id1]
            /\ r.st.k[s][id2] = kitties[s][id2]

\* the child of 0b10101010 and 0b01010101 under selector 0b11110000 is
\* 0b01011010
C10_Witness ==
    /\ last.op = "breed" /\ last.res = "Ok"
    /\ kitties[last.sender][last.id1] # None
    /\ kitties[last.sender][last.id2] # None
    /\ \E i \in DnaIdx :
          /\ kitties[last.sender][last.id1][1][i] = 170
          /\ kitties[last.sender][last.id2][1][i] = 85
          /\ last.rand[i] = 240
          /\ kitties[last.sender][last.ret[1]][1][i] = 90

\* C11: set_price fails with InvalidKittyId when the caller does not hold the
\* kitty; fails with NotForSale, creating no listing, when the caller holds
\* it and it has no listing; and otherwise returns Ok, reports the price
\* that was listed, lists the kitty at new_price and leaves Kitties,
\* NextKittyId, Balance and every other listing as they were.
C11_SetPrice ==
    \A caller \in Accounts, id \in KittyIndex, new_price \in NewPrices :
        LET r == set_price(Storage, caller, id, new_price) IN
        IF kitties[caller][id] = None
        THEN r.res = "InvalidKittyId" /\ r.st = Storage
        ELSE IF kittyPrice[id] = None
        THEN r.res = "NotForSale" /\ r.st = Storage
        ELSE /\ r.res = "Ok"
             /\ r.ret = kittyPrice[id]
             /\ r.st.p[id] = Some(new_price)
             /\ \A i \in KittyIndex : i # id => r.st.p[i] = kittyPrice[i]
             /\ r.st.k = kitties /\ r.st.n = nextKittyId /\ r.st.b = balance

\* the holder of a listed kitty changed its price and the old price was
\* reported, while a second kitty of the same holder has no listing
C11_Witness ==
    /\ last.op = "set_price" /\ last.res = "Ok"
    /\ last.ret = Some(SeedPrice) /\ last.price # SeedPrice
    /\ kitties[last.sender][last.id1] # None
    /\ kittyPrice[last.id1] = Some(last.price)
    /\ \E id \in KittyIndex :
          kitties[last.sender][id] # None /\ kittyPrice[id] = None

\* C12: exchange with receiver equal to the sender fails with
\* CannotExchangeWithYourself in every state and changes none of the four
\* storage items; the listing of kitty_id, if any, stays.
C12_SelfExchange ==
    \A x \in Accounts, id \in KittyIndex :
        exchange(Storage, x, x, id) = {Err(Storage, "CannotExchangeWithYourself")}

\* an exchange with oneself failed where a listed kitty is held and every
\* account has a balance record
C12_Witness ==
    /\ last.op = "exchange" /\ last.res = "CannotExchangeWithYourself"
    /\ \E id \in KittyIndex : kittyPrice[id] # None /\ Holders(id) # {}
    /\ \A o \in Accounts : balance[o] # None

\* C13: where kitty_id has a listing and sender and receiver differ, an
\* exchange that returns Ok, NotForSale or NotEnoughBalance leaves kitty_id
\* without listing, NotForSale being the answer exactly when the receiver
\* has no balance record among these; and every exchange on that kitty_id
\* after it fails with NotForSale.
C13_ListingConsumed ==
    \A s \in Accounts, c \in Accounts, id \in KittyIndex :
        (s # c /\ kittyPrice[id] # None) =>
            \A r \in exchange(Storage, s, c, id) :
                r.res \in {"Ok", "NotForSale", "NotEnoughBalance"} =>
                    /\ r.st.p[id] = None
                    /\ r.res = "NotForSale" <=> balance[c] = None
                    /\ \A s2 \in Accounts, c2 \in Accounts :
                          s2 # c2 =>
                              \A r2 \in exchange(r.st, s2, c2, id) :
                                  r2.res = "NotForSale"

\* an exchange failed with NotEnoughBalance and the listing that existed at
\* the start is gone, with the kitty still held
C13_Witness ==
    /\ last.op = "exchange" /\ last.res = "NotEnoughBalance"
    /\ \A id \in KittyIndex : kittyPrice[id] = None
    /\ Holders(0) # {}

\* The answers of exchange that decide a call before any balance is written,
\* and "funds" for a call that went on to the balance updates.
Decision(outcomes) ==
    {IF r.res \in {"CannotExchangeWithYourself", "NotForSale", "NotEnoughBalance"}
     THEN r.res ELSE "funds" : r \in outcomes}
OptBalances == {None} \cup {Some(x) : x \in 0..MaxBalance}
\* exchange(s, c, id) gets past the listing and the balance check
PassesChecks(s, c, id) ==
    /\ s # c
    /\ kittyPrice[id] # None
    /\ balance[c] # None
    /\ kittyPrice[id][1] < balance[c][1]

C15_SuccessfulExchange ==
    [][(last'.op = "exchange" /\ last'.res = "Ok") =>
        LET s == last'.sender
            c == last'.to
            id == last'.id1
            p == kittyPrice[id][1]
        IN
        /\ kitties[s][id] # None
        /\ IF balance[s] = None THEN balance'[s] = None
           ELSE balance'[s] # None /\ balance'[s][1] + p = balance[s][1]
        /\ balance'[c] # None /\ balance'[c][1] = balance[c][1] + p
        /\ HoldersIn(kitties', id) = {}
        /\ \A o \in Accounts, i \in KittyIndex :
              (o # s \/ i # id) => kitties'[o][i] = kitties[o][i]
        /\ nextKittyId' = nextKittyId]_vars

\* C16: the dna a create or breed stored under an id is the dna of that id
\* in every later state in which an account holds it.
C16_GenomeImmutable ==
    /\ Len(genomes) = Len(allocated)
    /\ \A i \in DOMAIN allocated, o \in Accounts :
          kitties[o][allocated[i]] # None => kitties[o][allocated[i]] = Some(genomes[i])

\* the first kitty was a parent of a bred kitty that is still held, and has
\* now moved to another account with the dna it was created with
C16_Witness ==
    /\ last.op = "transfer" /\ last.res = "Ok" /\ last.sender # last.to
    /\ Len(allocated) >= 3 /\ last.id1 = allocated[1]
    /\ kitties[last.to][last.id1] = Some(genomes[1])
    /\ \E i \in DOMAIN allocated :
          genomes[i] \notin RandomValues /\ Holders(allocated[i]) # {}

\* C17: wherever exchange gets past the listing and the balance check, the
\* sender's balance, if it has a record, is at least the price, and the
\* receiver's balance plus the price is within the balance type; so that no
\* exchange by the holder of the kitty panics.
C17_BalanceInRange ==
    \A s \in Accounts, c \in Accounts, id \in KittyIndex :
        PassesChecks(s, c, id) =>
            /\ balance[s] # None => balance[s][1] >= kittyPrice[id][1]
            /\ balance[c][1] + kittyPrice[id][1] <= MaxBalance
            /\ kitties[s][id] # None =>
                  \A r \in exchange(Storage, s, c, id) : r.res = "Ok"

\* C18: from the empty storage, KittyPrice and Balance are empty in every
\* reachable state; every set_price fails, and every exchange fails with
\* CannotExchangeWithYourself or NotForSale and changes nothing.
C18_NoListingEver ==
    /\ \A id \in KittyIndex : kittyPrice[id] = None
    /\ \A o \in Accounts : balance[o] = None
    /\ \A s \in Accounts, id \in KittyIndex :
          /\ \A new_price \in NewPrices :
                LET r == set_price(Storage, s, id, new_price) IN
                r.res \in {"InvalidKittyId", "NotForSale"} /\ r.st = Storage
          /\ \A c \in Accounts :
                \A r \in exchange(Storage, s, c, id) :
                    /\ r.res \in {"CannotExchangeWithYourself", "NotForSale"}
                    /\ r.st = Storage

\* a set_price failed with NotForSale where kitties are held, one of them
\* bred
C18_Witness ==
    /\ last.op = "set_price" /\ last.res = "NotForSale"
    /\ \E i \in DOMAIN allocated :
          genomes[i] \notin RandomValues /\ Holders(allocated[i]) # {}

\* C19: wherever exchange gets past the listing and the balance check for a
\* kitty that has a holder, the sender is that holder (so that the removal
\* of the sender's entry finds it).
C19_SenderHolds ==
    \A s \in Accounts, c \in Accounts, id \in KittyIndex :
        (PassesChecks(s, c, id) /\ Holders(id) # {}) => kitties[s][id] # None

\* C20: breed with the same id for both parents fails with SameGender when
\* the sender holds the kitty and with InvalidKittyId when it does not, and
\* leaves NextKittyId and Kitties as they were.
C20_BreedWithItself ==
    \A o \in Accounts, id \in KittyIndex, sel \in Selectors :
        LET r == breed(Storage, o, id, id, sel) IN
        /\ r.res = IF kitties[o][id] # None THEN "SameGender" ELSE "InvalidKittyId"
        /\ r.st.n = nextKittyId /\ r.st.k = kitties

\* a breed failed with SameGender while a single kitty exists: both parents
\* were that kitty
C20_Witness ==
    /\ last.op = "breed" /\ last.res = "SameGender"
    /\ allocated = <<0>> /\ nextKittyId = 1
    /\ Holders(0) # {}

=============================================================================
